---- MODULE Spec2Model ----
(***************************************************************************)
(* A state-machine model of mythic-init.py: one process run after another  *)
(* over a persistent file system.  Every external tool (git, make,         *)
(* mythic-cli, docker, iptables) is an environment whose outcome is drawn  *)
(* nondeterministically where the script invokes it.                       *)
(***************************************************************************)
EXTENDS Integers, Sequences, FiniteSets, TLC

----------------------------------------------------------------------------
(* Bounds of the model *)

\* number of consecutive runs of the script over the same file system
MaxRuns == 2
\* invalid (neither y nor n) answers accepted per run before the user answers
MaxInvalid == 1
\* entries whose deletion may fail during one teardown sweep
MaxDeleteFailures == 1
\* how many of the override options the command line may set
NumOptions == 2
\* longest override value drawn for configureMythic
MaxValLen == 2

----------------------------------------------------------------------------
(* Program constants *)

MYTHIC_REPO_URL == "https://github.com/its-a-feature/Mythic"

\* a remote that is not the upstream repository
OtherRepoUrl == "https://example.org/other.git"

\* the fixed plugin list of stockAgentsAndProfiles and cleanAndDestroy
Items ==
    << "github https://github.com/MythicAgents/apfell",
       "github https://github.com/MythicAgents/Hannibal",
       "github https://github.com/MythicAgents/Athena",
       "github https://github.com/MythicC2Profiles/http",
       "github https://github.com/MythicC2Profiles/httpx",
       "github https://github.com/MythicC2Profiles/dns",
       "github https://github.com/MythicC2Profiles/websocket" >>

\* the keys of env_options, in dictionary order, as character sequences
EnvOptionNames ==
    <<
       << "a", "l", "l", "o", "w", "e", "d", "_", "i", "p", "_", "b", "l", "o", "c", "k", "s" >>,
       << "c", "o", "m", "p", "o", "s", "e", "_", "p", "r", "o", "j", "e", "c", "t", "_", "n", "a", "m", "e" >>,
       << "d", "e", "b", "u", "g", "_", "l", "e", "v", "e", "l" >>,
       << "d", "e", "f", "a", "u", "l", "t", "_", "o", "p", "e", "r", "a", "t", "i", "o", "n", "_", "n", "a", "m", "e" >>,
       << "d", "e", "f", "a", "u", "l", "t", "_", "o", "p", "e", "r", "a", "t", "i", "o", "n", "_", "w", "e", "b", "h", "o", "o", "k", "_", "c", "h", "a", "n", "n", "e", "l" >>,
       << "d", "e", "f", "a", "u", "l", "t", "_", "o", "p", "e", "r", "a", "t", "i", "o", "n", "_", "w", "e", "b", "h", "o", "o", "k", "_", "u", "r", "l" >>,
       << "d", "o", "c", "u", "m", "e", "n", "t", "a", "t", "i", "o", "n", "_", "b", "i", "n", "d", "_", "l", "o", "c", "a", "l", "h", "o", "s", "t", "_", "o", "n", "l", "y" >>,
       << "d", "o", "c", "u", "m", "e", "n", "t", "a", "t", "i", "o", "n", "_", "h", "o", "s", "t" >>,
       << "d", "o", "c", "u", "m", "e", "n", "t", "a", "t", "i", "o", "n", "_", "p", "o", "r", "t" >>,
       << "d", "o", "c", "u", "m", "e", "n", "t", "a", "t", "i", "o", "n", "_", "u", "s", "e", "_", "b", "u", "i", "l", "d", "_", "c", "o", "n", "t", "e", "x", "t" >>,
       << "d", "o", "c", "u", "m", "e", "n", "t", "a", "t", "i", "o", "n", "_", "u", "s", "e", "_", "v", "o", "l", "u", "m", "e" >>,
       << "g", "l", "o", "b", "a", "l", "_", "d", "o", "c", "k", "e", "r", "_", "l", "a", "t", "e", "s", "t" >>,
       << "g", "l", "o", "b", "a", "l", "_", "m", "a", "n", "a", "g", "e", "r" >>,
       << "g", "l", "o", "b", "a", "l", "_", "s", "e", "r", "v", "e", "r", "_", "n", "a", "m", "e" >>,
       << "h", "a", "s", "u", "r", "a", "_", "b", "i", "n", "d", "_", "l", "o", "c", "a", "l", "h", "o", "s", "t", "_", "o", "n", "l", "y" >>,
       << "h", "a", "s", "u", "r", "a", "_", "c", "p", "u", "s" >>,
       << "h", "a", "s", "u", "r", "a", "_", "e", "x", "p", "e", "r", "i", "m", "e", "n", "t", "a", "l", "_", "f", "e", "a", "t", "u", "r", "e", "s" >>,
       << "h", "a", "s", "u", "r", "a", "_", "h", "o", "s", "t" >>,
       << "h", "a", "s", "u", "r", "a", "_", "m", "e", "m", "_", "l", "i", "m", "i", "t" >>,
       << "h", "a", "s", "u", "r", "a", "_", "p", "o", "r", "t" >>,
       << "h", "a", "s", "u", "r", "a", "_", "s", "e", "c", "r", "e", "t" >>,
       << "h", "a", "s", "u", "r", "a", "_", "u", "s", "e", "_", "b", "u", "i", "l", "d", "_", "c", "o", "n", "t", "e", "x", "t" >>,
       << "h", "a", "s", "u", "r", "a", "_", "u", "s", "e", "_", "v", "o", "l", "u", "m", "e" >>
    >>

\* the administrative port named in the iptables rules
AdminPort == 7443

----------------------------------------------------------------------------
(* Strings as sequences of characters *)

LowerCase == << "a","b","c","d","e","f","g","h","i","j","k","l","m",
                "n","o","p","q","r","s","t","u","v","w","x","y","z" >>
UpperCase == << "A","B","C","D","E","F","G","H","I","J","K","L","M",
                "N","O","P","Q","R","S","T","U","V","W","X","Y","Z" >>

\* str.upper() on one character
UpperChar(c) ==
    IF \E i \in 1..26 : LowerCase[i] = c
    THEN UpperCase[CHOOSE i \in 1..26 : LowerCase[i] = c]
    ELSE c

\* str.upper()
Upper(s) == [i \in 1..Len(s) |-> UpperChar(s[i])]

\* the characters override values are drawn from: a letter, the double
\* quote and the line feed
ValueChars == { "x", "\"", "\n" }

\* every string of at most n characters over ValueChars
RECURSIVE StringsUpTo(_)
StringsUpTo(n) ==
    IF n = 0 THEN { << >> }
    ELSE LET shorter == StringsUpTo(n - 1)
         IN  shorter \cup { Append(s, c) : s \in shorter, c \in ValueChars }

\* an optional value: None, or Some(v)
None == << >>
Some(v) == << v >>
IsNone(o) == o = << >>

\* "\n".join(lines)
RECURSIVE JoinLines(_)
JoinLines(lines) ==
    IF lines = << >> THEN << >>
    ELSE IF Len(lines) = 1 THEN lines[1]
    ELSE lines[1] \o << "\n" >> \o JoinLines(Tail(lines))

\* the lines of a text, split at every line feed
RECURSIVE SplitLines(_)
SplitLines(text) ==
    IF \A i \in 1..Len(text) : text[i] # "\n" THEN << text >>
    ELSE LET i == CHOOSE j \in 1..Len(text) :
                     /\ text[j] = "\n"
                     /\ \A k \in 1..(j - 1) : text[k] # "\n"
         IN  << SubSeq(text, 1, i - 1) >>
                 \o SplitLines(SubSeq(text, i + 1, Len(text)))

IsPrefix(p, s) == Len(p) <= Len(s) /\ SubSeq(s, 1, Len(p)) = p

----------------------------------------------------------------------------
(* Paths and the file system *)

\* os.path.abspath on an absolute path given as its components: "." and
\* empty components are dropped, ".." removes the component before it
RECURSIVE NormComponents(_, _)
NormComponents(todo, done) ==
    IF todo = << >> THEN done
    ELSE LET c == Head(todo)
         IN  IF c = "." \/ c = ""
             THEN NormComponents(Tail(todo), done)
             ELSE IF c = ".."
             THEN NormComponents(Tail(todo),
                      IF done = << >> THEN << >>
                      ELSE SubSeq(done, 1, Len(done) - 1))
             ELSE NormComponents(Tail(todo), Append(done, c))

AbsPath(p) == NormComponents(p, << >>)

\* os.path.expanduser("~")
HomeDir == << "home", "u" >>

\* values of --directory; every run of one behaviour is given the same one
DirArgs ==
    { << "srv", "mythic" >>,
      << "home", "u" >>,
      << "srv", "mythic", "..", "..", "home", "u", "." >> }

\* os.path.basename(os.path.abspath(__file__))
RunningScript == "mythic-init.py"

Entries ==
    { ".git", "Makefile", "README.md", "mythic-docker", "docker-compose.yml",
      ".env", "mythic-cli", "mythic-init.py", "notes.txt" }

\* what a checkout of the upstream default branch puts in the directory
UpstreamTree == { "Makefile", "README.md", "mythic-docker" }

\* get_mythic_repo_file_list: the archive's root-level names without a
\* path separator (directories end in "/" and are left out)
MythicRootFiles == { "Makefile", "README.md" }

\* directory contents the first run may find
InitContents ==
    { {},
      { "notes.txt", "mythic-init.py" },
      { ".git", "Makefile", "notes.txt", "mythic-init.py" },
      { ".git", "Makefile", "README.md", "mythic-docker", "mythic-cli",
        "docker-compose.yml", "mythic-init.py" } }

\* the origin remote of the .git directory an initial content holds
InitOrigin(content) ==
    IF ".git" \notin content THEN "none"
    ELSE IF UpstreamTree \subseteq content THEN MYTHIC_REPO_URL
    ELSE OtherRepoUrl

----------------------------------------------------------------------------
(* Command line *)

SourceIps == { "None", "10.0.0.5/32" }

\* `not trustedIps`
Falsy(s) == s = "None" \/ s = ""

AllNull == [i \in 1..NumOptions |-> None]

\* override maps the command line of a full run may carry
CliOverrides ==
    { AllNull, [AllNull EXCEPT ![1] = Some(<< "x" >>)] }

\* override maps drawn for configureMythic alone
AllOverrides == [1..NumOptions -> {None} \cup { Some(v) : v \in StringsUpTo(MaxValLen) }]

\* the values of the command line the script acts on (--print only selects
\* what is printed and is left out)
ArgsOf(d, e, s, i, c, n, o) ==
    [ directory |-> d, env |-> e, source_ip |-> s, install |-> i,
      cleanup |-> c, no_docker_cleanup |-> n, overrides |-> o ]

\* the argparse defaults
NoArgs == ArgsOf(<< >>, FALSE, "None", FALSE, FALSE, FALSE, AllNull)

\* outcomes of subprocess.run(..., check=True): exit status 0, a non-zero
\* exit status (CalledProcessError), or the program cannot be executed
\* (OSError)
RunOutcomes == { "ok", "nonzero", "oserror" }

----------------------------------------------------------------------------
(* State *)

VARIABLES
    directory,   \* the --directory argument of every run
    fs,          \* names of the entries of the target directory
    gitOrigin,   \* url of the origin remote of its .git, or "none"
    envFile,     \* text of its .env file (empty when absent)
    runs,        \* runs started so far
    pc,          \* position of the running process
    args,        \* parsed command line
    targetDir,   \* os.path.abspath(args.directory)
    exc,         \* exception in flight
    exitCode,    \* exit status of the process, -1 while it runs
    why,         \* what ended the run
    idx,         \* position in the plugin list
    conflicts,   \* result of check_for_conflicts
    invalid,     \* invalid prompt answers given in this run
    setup_successful,
    fs0,         \* entries of the target directory when the run started
    origin0,     \* origin remote of the target directory when the run started
    confirmed,   \* prompts answered "y" in this run
    deleted,     \* << action, entry >> deletions made in this run
    gitLog,      \* git operations attempted in this run
    cliLog,      \* mythic-cli invocations of this run
    fwLog,       \* iptables invocations of this run
    dockerLog,   \* docker invocations of this run
    startEnv,    \* whether .env existed when mythic-cli start was invoked
    refused,     \* the home-directory refusal was reported
    composeAtTeardown,  \* docker-compose.yml existed when teardown began
    pluginFailed        \* a plugin install or uninstall exited non-zero

disk == << directory, fs, gitOrigin, envFile, runs >>
proc == << pc, args, targetDir, exc, exitCode, why, idx, conflicts, invalid,
           setup_successful >>
hist == << fs0, origin0, confirmed, deleted, gitLog, cliLog, fwLog,
           dockerLog, startEnv, refused, composeAtTeardown, pluginFailed >>
vars == << disk, proc, hist >>

NoExc == [kind |-> "none", code |-> -1]
SystemExit(n) == [kind |-> "SystemExit", code |-> n]
KeyboardInterrupt == [kind |-> "KeyboardInterrupt", code |-> -1]
Exception == [kind |-> "Exception", code |-> -1]

\* the per-run part of the state when a process starts
FreshProcess ==
    /\ pc = "parse"
    /\ args = NoArgs
    /\ targetDir = << >>
    /\ exc = NoExc
    /\ exitCode = -1
    /\ why = "running"
    /\ idx = 0
    /\ conflicts = {}
    /\ invalid = 0
    /\ setup_successful = FALSE
    /\ fs0 = {}
    /\ origin0 = "none"
    /\ confirmed = {}
    /\ deleted = {}
    /\ gitLog = << >>
    /\ cliLog = << >>
    /\ fwLog = << >>
    /\ dockerLog = << >>
    /\ startEnv = "notstarted"
    /\ refused = FALSE
    /\ composeAtTeardown = FALSE
    /\ pluginFailed = FALSE

Init ==
    /\ directory \in DirArgs
    /\ fs \in InitContents
    /\ gitOrigin = InitOrigin(fs)
    /\ envFile = << >>
    /\ runs = 1
    /\ FreshProcess

\* the exit status with which exception e ends the process: the two except
\* clauses of the try statement turn KeyboardInterrupt and Exception into 1,
\* SystemExit is neither and keeps its code; a bare except would catch it
HandlerBareExcept(e) == 1
Handler(e) ==
    IF e.kind = "KeyboardInterrupt" THEN 1
    ELSE IF e.kind = "Exception" THEN 1
    ELSE e.code

\* an exception e leaves the current statement and ends the process
Raise(e, reason) ==
    /\ exc' = e
    /\ why' = reason
    /\ exitCode' = Handler(e)
    /\ pc' = "exited"

\* the origin remote and the .env text once the entries S are removed
OriginWithout(S) == IF ".git" \in S THEN "none" ELSE gitOrigin
EnvWithout(S) == IF ".env" \in S THEN << >> ELSE envFile

\* ensure_mythic_cli: os.path.isfile(<targetDir>/mythic-cli)
ensure_mythic_cli == "mythic-cli" \in fs

\* cleanup_docker_orphans: the docker invocations it makes
cleanup_docker_orphans ==
    IF "docker-compose.yml" \notin fs THEN << >>
    ELSE << "compose down --remove-orphans" >>

\* cleanup_docker: the docker invocations it makes
cleanup_docker ==
    << "container prune -f", "volume prune -f", "system prune -af" >>

----------------------------------------------------------------------------
(* Start of a run *)

\* parser.parse_args() and targetDir = os.path.abspath(args.directory).
\* argparse ends the process itself on --help (status 0) and on a command
\* line it rejects (status 2), before the try block is entered.
\* The command line is an input of the run and every value of it is read
\* by one statement only: --cleanup is drawn here, each
\* other value by the action of the statement that reads it, and args
\* holds the values read so far (the argparse defaults elsewhere).
ParseArgs ==
    /\ pc = "parse"
    /\ \/ /\ \E c \in BOOLEAN :
                args' = [args EXCEPT !.directory = directory, !.cleanup = c]
          /\ targetDir' = AbsPath(directory)
          /\ fs0' = fs
          /\ origin0' = gitOrigin
          /\ pc' = "try"
          /\ UNCHANGED << exitCode, why >>
       \/ /\ exitCode' = 2
          /\ why' = "usage"
          /\ pc' = "exited"
          /\ UNCHANGED << args, targetDir, fs0, origin0 >>
       \/ /\ exitCode' = 0
          /\ why' = "help"
          /\ pc' = "exited"
          /\ UNCHANGED << args, targetDir, fs0, origin0 >>
    /\ UNCHANGED << disk, exc, idx, conflicts, invalid, setup_successful,
                    confirmed, deleted, gitLog, cliLog, fwLog, dockerLog,
                    startEnv, refused, composeAtTeardown,
                    pluginFailed >>

----------------------------------------------------------------------------
(* Teardown: cleanAndDestroy *)

CliCall(cmd, item) == [cmd |-> cmd, item |-> item]

\* the position in the plugin list after item i ended with outcome out:
\* the except clause is inside the loop, so a non-zero exit moves on
NextItemAbort(i, out) == IF out = "nonzero" THEN Len(Items) + 1 ELSE i + 1
NextItem(i, out) == i + 1

\* `if args.cleanup:` and the head of cleanAndDestroy: ensure_mythic_cli
\* and ./mythic-cli stop
CleanStop ==
    /\ pc = "try"
    /\ args.cleanup
    /\ composeAtTeardown' = ("docker-compose.yml" \in fs)
    /\ IF ~ensure_mythic_cli
       THEN /\ pc' = "cd_home"
            /\ UNCHANGED << cliLog, idx, exc, why, exitCode >>
       ELSE \E out \in RunOutcomes :
            /\ cliLog' = Append(cliLog, CliCall("stop", ""))
            /\ IF out = "oserror"
               THEN /\ Raise(Exception, "exception")
                    /\ UNCHANGED idx
               ELSE /\ pc' = "cd_uninstall"
                    /\ idx' = 1
                    /\ UNCHANGED << exc, why, exitCode >>
    /\ UNCHANGED << disk, args, targetDir, conflicts, invalid,
                    setup_successful, fs0, origin0, confirmed, deleted,
                    gitLog, fwLog, dockerLog, startEnv, refused, pluginFailed >>

\* one iteration of the uninstall loop
CleanUninstall ==
    /\ pc = "cd_uninstall"
    /\ \E out \in RunOutcomes :
        /\ cliLog' = Append(cliLog, CliCall("uninstall", Items[idx]))
        /\ pluginFailed' = (pluginFailed \/ out = "nonzero")
        /\ IF out = "oserror"
           THEN /\ Raise(Exception, "exception")
                /\ UNCHANGED idx
           ELSE /\ idx' = NextItem(idx, out)
                /\ pc' = IF idx' > Len(Items) THEN "cd_home" ELSE "cd_uninstall"
                /\ UNCHANGED << exc, why, exitCode >>
    /\ UNCHANGED << disk, args, targetDir, conflicts, invalid,
                    setup_successful, fs0, origin0, confirmed, deleted,
                    gitLog, fwLog, dockerLog, startEnv, refused,
                    composeAtTeardown >>

\* os.path.abspath(targetDir) == os.path.abspath(os.path.expanduser("~"))
IsHomeDirUnexpanded(d) == AbsPath(d) = AbsPath(<< "~" >>)
IsHomeDir(d) == AbsPath(d) = AbsPath(HomeDir)

\* the home-directory check and the deletion sweep over os.listdir
CleanSweep ==
    /\ pc = "cd_home"
    /\ IF IsHomeDir(targetDir)
       THEN /\ refused' = TRUE
            /\ pc' = "cd_exit"
            /\ UNCHANGED << fs, gitOrigin, envFile, deleted >>
       ELSE LET targets == fs \ {RunningScript}
            IN  \E failed \in SUBSET targets :
                /\ Cardinality(failed) <= MaxDeleteFailures
                /\ fs' = fs \ (targets \ failed)
                /\ gitOrigin' = OriginWithout(targets \ failed)
                /\ envFile' = EnvWithout(targets \ failed)
                /\ deleted' = deleted \cup
                       { << "teardown", e >> : e \in targets \ failed }
                /\ pc' = "cd_docker"
                /\ UNCHANGED refused
    /\ UNCHANGED << directory, runs, args, targetDir, exc, exitCode, why,
                    idx, conflicts, invalid, setup_successful, fs0, origin0,
                    confirmed, gitLog, cliLog, fwLog, dockerLog, startEnv,
                    composeAtTeardown,
                    pluginFailed >>

\* cleanup_docker_orphans, then cleanup_docker() unless suppressed
CleanDocker ==
    /\ pc = "cd_docker"
    /\ \E no_docker_cleanup \in BOOLEAN :
        /\ args' = [args EXCEPT !.no_docker_cleanup = no_docker_cleanup]
        /\ dockerLog' = dockerLog \o cleanup_docker_orphans
                           \o (IF ~no_docker_cleanup THEN cleanup_docker
                               ELSE << >>)
    /\ pc' = "cd_exit"
    /\ UNCHANGED << disk, targetDir, exc, exitCode, why, idx,
                    conflicts, invalid, setup_successful, fs0, origin0,
                    confirmed, deleted, gitLog, cliLog, fwLog, startEnv,
                    refused, composeAtTeardown,
                    pluginFailed >>

\* sys.exit(0) after cleanAndDestroy returned
CleanExit ==
    /\ pc = "cd_exit"
    /\ Raise(SystemExit(0), "cleanup")
    /\ UNCHANGED << disk, args, targetDir, idx, conflicts, invalid,
                    setup_successful, hist >>

----------------------------------------------------------------------------
(* Interruption and the next run *)


\* positions inside the try block
TryPcs ==
    { "try", "cd_uninstall", "cd_home", "cd_docker", "cd_exit",
      "git_prompt", "conflicts", "conflict_prompt", "clone", "build",
      "start", "rules", "install", "install_item" }

\* Ctrl-C while the try block runs
Interrupt ==
    /\ pc \in TryPcs
    /\ Raise(KeyboardInterrupt, "interrupt")
    /\ UNCHANGED << disk, args, targetDir, idx, conflicts, invalid,
                    setup_successful, hist >>

\* the script is run again on the same machine
NewRun ==
    /\ pc = "exited"
    /\ runs < MaxRuns
    /\ runs' = runs + 1
    /\ pc' = "parse"
    /\ args' = NoArgs
    /\ targetDir' = << >>
    /\ exc' = NoExc
    /\ exitCode' = -1
    /\ why' = "running"
    /\ idx' = 0
    /\ conflicts' = {}
    /\ invalid' = 0
    /\ setup_successful' = FALSE
    /\ fs0' = {}
    /\ origin0' = "none"
    /\ confirmed' = {}
    /\ deleted' = {}
    /\ gitLog' = << >>
    /\ cliLog' = << >>
    /\ fwLog' = << >>
    /\ dockerLog' = << >>
    /\ startEnv' = "notstarted"
    /\ refused' = FALSE
    /\ composeAtTeardown' = FALSE
    /\ pluginFailed' = FALSE
    /\ UNCHANGED << directory, fs, gitOrigin, envFile >>

----------------------------------------------------------------------------
(* Installation: cloneAndBuild *)

\* `if args.print:` -- with the flag the .env file is read and printed,
\* without it nothing is done; no state is changed either way
PrintEnv ==
    /\ pc = "try"
    /\ ~args.cleanup
    /\ pc' = "git_prompt"
    /\ UNCHANGED << disk, args, targetDir, exc, exitCode, why, idx,
                    conflicts, invalid, setup_successful, hist >>

\* the .git edge case: one answer to the prompt
GitPrompt ==
    /\ pc = "git_prompt"
    /\ IF ".git" \notin fs
       THEN /\ pc' = "conflicts"
            /\ UNCHANGED << fs, gitOrigin, exc, why, exitCode, invalid, confirmed,
                            deleted >>
       ELSE \/ \* "y", shutil.rmtree succeeds
               /\ fs' = fs \ {".git"}
               /\ gitOrigin' = OriginWithout({".git"})
               /\ confirmed' = confirmed \cup {"git_prompt"}
               /\ deleted' = deleted \cup { << "git_prompt", ".git" >> }
               /\ pc' = "conflicts"
               /\ UNCHANGED << exc, why, exitCode, invalid >>
            \/ \* "y", shutil.rmtree raises
               /\ confirmed' = confirmed \cup {"git_prompt"}
               /\ Raise(SystemExit(1), "rmfail")
               /\ UNCHANGED << fs, gitOrigin, invalid, deleted >>
            \/ \* "n"
               /\ Raise(SystemExit(0), "declined")
               /\ UNCHANGED << fs, gitOrigin, invalid, confirmed, deleted >>
            \/ \* anything else: prompt again
               /\ invalid < MaxInvalid
               /\ invalid' = invalid + 1
               /\ UNCHANGED << fs, gitOrigin, pc, exc, why, exitCode, confirmed,
                               deleted >>
    /\ UNCHANGED << directory, envFile, runs, args, targetDir, idx, conflicts,
                    setup_successful, fs0, origin0, gitLog, cliLog, fwLog,
                    dockerLog, startEnv, refused, composeAtTeardown,
                    pluginFailed >>

\* check_for_conflicts
check_for_conflicts == (MythicRootFiles \cap fs) \ {".git"}

\* conflicts = check_for_conflicts(targetLoc); the download may raise
CheckConflicts ==
    /\ pc = "conflicts"
    /\ \/ /\ conflicts' = check_for_conflicts
          /\ pc' = IF conflicts' # {} THEN "conflict_prompt" ELSE "clone"
          /\ UNCHANGED << exc, why, exitCode >>
       \/ /\ Raise(Exception, "exception")
          /\ UNCHANGED conflicts
    /\ UNCHANGED << disk, args, targetDir, idx, invalid,
                    setup_successful, hist >>

\* the colliding-files prompt: one answer
ConflictPrompt ==
    /\ pc = "conflict_prompt"
    /\ \/ \* "y", every colliding entry is deleted
          /\ fs' = fs \ conflicts
          /\ confirmed' = confirmed \cup {"conflict_prompt"}
          /\ deleted' = deleted \cup { << "conflict_prompt", c >> : c \in conflicts }
          /\ pc' = "clone"
          /\ UNCHANGED << exc, why, exitCode, invalid >>
       \/ \* "y", a deletion raises after some entries are gone
          /\ \E done \in (SUBSET conflicts) \ {conflicts} :
               /\ fs' = fs \ done
               /\ deleted' = deleted \cup { << "conflict_prompt", c >> : c \in done }
          /\ confirmed' = confirmed \cup {"conflict_prompt"}
          /\ Raise(SystemExit(1), "rmfail")
          /\ UNCHANGED invalid
       \/ \* "n"
          /\ Raise(SystemExit(0), "declined")
          /\ UNCHANGED << fs, invalid, confirmed, deleted >>
       \/ \* anything else: prompt again
          /\ invalid < MaxInvalid
          /\ invalid' = invalid + 1
          /\ UNCHANGED << fs, pc, exc, why, exitCode, confirmed, deleted >>
    /\ UNCHANGED << directory, gitOrigin, envFile, runs, args, targetDir, idx,
                    conflicts, setup_successful, fs0, origin0, gitLog, cliLog,
                    fwLog, dockerLog, startEnv, refused, composeAtTeardown,
                    pluginFailed >>

\* force_git_reinit: rm -rf .git, git init, remote add, then fetch,
\* checkout and pull, whose exit statuses os.system drops; fetched says
\* whether they brought the upstream tree
force_git_reinit(fetched) ==
    IF fetched THEN fs \cup {".git"} \cup UpstreamTree
    ELSE fs \cup {".git"}

\* Repo.clone_from and the handling of GitCommandError
Clone ==
    /\ pc = "clone"
    /\ \/ \* the clone succeeds: the directory was empty
          /\ fs = {}
          /\ fs' = {".git"} \cup UpstreamTree
          /\ gitOrigin' = MYTHIC_REPO_URL
          /\ gitLog' = gitLog \o << "clone" >>
          /\ setup_successful' = TRUE
          /\ pc' = "build"
          /\ UNCHANGED << exc, why, exitCode, deleted >>
       \/ \* "destination path ... already exists"
          /\ fs # {}
          /\ IF ".git" \notin fs
                \/ gitOrigin # MYTHIC_REPO_URL
             THEN \E fetched \in BOOLEAN :
                  /\ fs' = force_git_reinit(fetched)
                  /\ gitOrigin' = MYTHIC_REPO_URL
                  /\ gitLog' = gitLog \o << "clone", "force_git_reinit" >>
                  /\ deleted' = IF ".git" \in fs
                                THEN deleted \cup { << "force_git_reinit", ".git" >> }
                                ELSE deleted
                  /\ setup_successful' = TRUE
                  /\ pc' = "build"
                  /\ UNCHANGED << exc, why, exitCode >>
             ELSE \* the origin remote is the upstream url: pull
                  /\ gitLog' = gitLog \o << "clone", "pull" >>
                  /\ UNCHANGED << fs, gitOrigin, deleted >>
                  /\ \/ /\ setup_successful' = TRUE
                        /\ pc' = "build"
                        /\ UNCHANGED << exc, why, exitCode >>
                     \/ /\ Raise(Exception, "exception")
                        /\ UNCHANGED setup_successful
       \/ \* any other GitCommandError is printed
          /\ gitLog' = gitLog \o << "clone" >>
          /\ pc' = "build"
          /\ UNCHANGED << fs, gitOrigin, exc, why, exitCode, deleted, setup_successful >>
    /\ UNCHANGED << directory, envFile, runs, args, targetDir, idx, conflicts,
                    invalid, fs0, origin0, confirmed, cliLog, fwLog,
                    dockerLog, startEnv, refused, composeAtTeardown,
                    pluginFailed >>

\* `if setup_successful: build_mythic(targetLoc)` else sys.exit(1)
Build ==
    /\ pc = "build"
    /\ IF ~setup_successful
       THEN /\ Raise(SystemExit(1), "setup")
            /\ UNCHANGED fs
       ELSE \/ \* make exits 0 and leaves the mythic-cli binary
               /\ "Makefile" \in fs
               /\ fs' = fs \cup {"mythic-cli"}
               /\ pc' = "start"
               /\ UNCHANGED << exc, why, exitCode >>
            \/ \* make exits non-zero
               /\ Raise(SystemExit(1), "build")
               /\ UNCHANGED fs
            \/ \* make cannot be executed
               /\ Raise(Exception, "exception")
               /\ UNCHANGED fs
    /\ UNCHANGED << directory, gitOrigin, envFile, runs, args, targetDir, idx,
                    conflicts, invalid, setup_successful, hist >>

----------------------------------------------------------------------------
(* configureMythic *)

\* effective_env: the (KEY, value) pairs of the options whose value is not
\* None, keys upper-cased, in the order of env_options
RECURSIVE EffectiveEnvFrom(_, _)
EffectiveEnvFrom(o, i) ==
    IF i > Len(o) THEN << >>
    ELSE IF IsNone(o[i]) THEN EffectiveEnvFrom(o, i + 1)
    ELSE << << Upper(EnvOptionNames[i]), o[i][1] >> >>
             \o EffectiveEnvFrom(o, i + 1)

EffectiveEnv(o) == EffectiveEnvFrom(o, 1)

\* f'{key}="{value}"'
ConfLine(key, value) == key \o << "=", "\"" >> \o value \o << "\"" >>

\* conf = "\n".join(conf_lines)
Conf(o) ==
    LET eff == EffectiveEnv(o)
    IN  JoinLines([i \in 1..Len(eff) |-> ConfLine(eff[i][1], eff[i][2])])

\* `if effective_env:` -- the .env file is written
WritesEnv(o) == EffectiveEnv(o) # << >>

\* cleanup_docker_orphans, then configureMythic (with --env) or the plain
\* ./mythic-cli start, for given values of --env and of the override options
StartWith(env, overrides) ==
    /\ pc = "start"
    /\ dockerLog' = dockerLog \o cleanup_docker_orphans
    /\ LET writes == env /\ WritesEnv(overrides)
           files  == IF writes THEN fs \cup {".env"}
                     ELSE fs
       IN  /\ args' = [args EXCEPT !.env = env, !.overrides = overrides]
           /\ envFile' = IF writes
                         THEN Conf(overrides)
                         ELSE envFile
           /\ IF ~ensure_mythic_cli
              THEN /\ fs' = files
                   /\ pc' = "rules"
                   /\ UNCHANGED << cliLog, startEnv, exc, why, exitCode >>
              ELSE \E out \in RunOutcomes :
                   /\ cliLog' = Append(cliLog, CliCall("start", ""))
                   /\ startEnv' = IF ".env" \in files THEN "present" ELSE "absent"
                   /\ IF out = "ok"
                      THEN /\ fs' = files \cup {"docker-compose.yml"}
                           /\ pc' = "rules"
                           /\ UNCHANGED << exc, why, exitCode >>
                      ELSE /\ fs' = files
                           /\ Raise(Exception,
                                    IF out = "nonzero" THEN "start" ELSE "exception")
    /\ UNCHANGED << directory, gitOrigin, runs, targetDir, idx, conflicts,
                    invalid, setup_successful, fs0, origin0, confirmed,
                    deleted, gitLog, fwLog, refused, composeAtTeardown,
                    pluginFailed >>

Start ==
    \E env \in BOOLEAN, overrides \in CliOverrides : StartWith(env, overrides)

----------------------------------------------------------------------------
(* configureRules *)

FwCall(rule, source, out) ==
    [rule |-> rule, port |-> AdminPort, source |-> source, status |-> out]

\* whether the ACCEPT insertion is attempted after a DROP insertion that
\* ended with dropStatus: both calls sit in one try block
AcceptAttemptedAlways(dropStatus) == TRUE
AcceptAttempted(dropStatus) == dropStatus = "ok"

Rules ==
    /\ pc = "rules"
    /\ \E trustedIps \in SourceIps :
       /\ args' = [args EXCEPT !.source_ip = trustedIps]
       /\ IF Falsy(trustedIps)
          THEN /\ pc' = "install"
               /\ UNCHANGED << fwLog, exc, why, exitCode >>
          ELSE \E out1 \in RunOutcomes, out2 \in RunOutcomes :
               LET last == IF AcceptAttempted(out1) THEN out2 ELSE out1
               IN  /\ fwLog' =
                        << FwCall("DROP", "any", out1) >>
                        \o (IF AcceptAttempted(out1)
                            THEN << FwCall("ACCEPT", trustedIps, out2) >>
                            ELSE << >>)
                   /\ IF last = "oserror"
                      THEN Raise(Exception, "exception")
                      ELSE /\ pc' = "install"
                           /\ UNCHANGED << exc, why, exitCode >>
    /\ UNCHANGED << disk, targetDir, idx, conflicts, invalid,
                    setup_successful, fs0, origin0, confirmed, deleted,
                    gitLog, cliLog, dockerLog, startEnv, refused,
                    composeAtTeardown,
                    pluginFailed >>

----------------------------------------------------------------------------
(* stockAgentsAndProfiles *)

\* `if args.install:` and the ensure_mythic_cli guard
InstallBegin ==
    /\ pc = "install"
    /\ \E install \in BOOLEAN :
       /\ args' = [args EXCEPT !.install = install]
       /\ IF install /\ ensure_mythic_cli
          THEN /\ pc' = "install_item"
               /\ idx' = 1
          ELSE /\ pc' = "complete"
               /\ UNCHANGED idx
    /\ UNCHANGED << disk, targetDir, exc, exitCode, why, conflicts,
                    invalid, setup_successful, hist >>

\* one iteration of the install loop
InstallItem ==
    /\ pc = "install_item"
    /\ \E out \in RunOutcomes :
        /\ cliLog' = Append(cliLog, CliCall("install", Items[idx]))
        /\ pluginFailed' = (pluginFailed \/ out = "nonzero")
        /\ IF out = "oserror"
           THEN /\ Raise(Exception, "exception")
                /\ UNCHANGED idx
           ELSE /\ idx' = NextItem(idx, out)
                /\ pc' = IF idx' > Len(Items) THEN "complete" ELSE "install_item"
                /\ UNCHANGED << exc, why, exitCode >>
    /\ UNCHANGED << disk, args, targetDir, conflicts, invalid,
                    setup_successful, fs0, origin0, confirmed, deleted,
                    gitLog, fwLog, dockerLog, startEnv, refused,
                    composeAtTeardown >>

\* the final message and sys.exit(0), after the try statement
Complete ==
    /\ pc = "complete"
    /\ exitCode' = 0
    /\ why' = "complete"
    /\ pc' = "exited"
    /\ UNCHANGED << disk, args, targetDir, exc, idx, conflicts, invalid,
                    setup_successful, hist >>

----------------------------------------------------------------------------
(* Specifications *)

Next ==
    \/ ParseArgs
    \/ CleanStop
    \/ CleanUninstall
    \/ CleanSweep
    \/ CleanDocker
    \/ CleanExit
    \/ PrintEnv
    \/ GitPrompt
    \/ CheckConflicts
    \/ ConflictPrompt
    \/ Clone
    \/ Build
    \/ Start
    \/ Rules
    \/ InstallBegin
    \/ InstallItem
    \/ Complete
    \/ Interrupt
    \/ NewRun

Spec == Init /\ [][Next]_vars

\* configureMythic on its own: the state a first run into an empty
\* /srv/mythic is in when the build has succeeded, and --env with every
\* override map of AllOverrides
InitEnv ==
    /\ directory = << "srv", "mythic" >>
    /\ fs = {".git", "mythic-cli"} \cup UpstreamTree
    /\ gitOrigin = MYTHIC_REPO_URL
    /\ envFile = << >>
    /\ runs = 1
    /\ pc = "start"
    /\ args = [NoArgs EXCEPT !.directory = << "srv", "mythic" >>]
    /\ targetDir = << "srv", "mythic" >>
    /\ exc = NoExc
    /\ exitCode = -1
    /\ why = "running"
    /\ idx = 0
    /\ conflicts = {}
    /\ invalid = 0
    /\ setup_successful = TRUE
    /\ fs0 = {}
    /\ origin0 = "none"
    /\ confirmed = {}
    /\ deleted = {}
    /\ gitLog = << "clone" >>
    /\ cliLog = << >>
    /\ fwLog = << >>
    /\ dockerLog = << >>
    /\ startEnv = "notstarted"
    /\ refused = FALSE
    /\ composeAtTeardown = FALSE
    /\ pluginFailed = FALSE

ConfigureMythic == \E overrides \in AllOverrides : StartWith(TRUE, overrides)

NextEnv == ConfigureMythic

SpecEnv == InitEnv /\ [][NextEnv]_vars

----------------------------------------------------------------------------
(* Properties *)

\* the values of a sequence
Range(s) == { s[i] : i \in DOMAIN s }

\* the run is a teardown of a directory that normalizes to the home directory
HomeTeardown == args.cleanup /\ AbsPath(args.directory) = HomeDir

\* C1 (as amended): in a --cleanup run whose target directory normalizes to
\* the caller's home directory no entry of the directory is ever deleted,
\* and the process ends either with the refusal reported and exit code 0, or
\* with exit code 1 after a keyboard interrupt or after an exception other
\* than a non-zero exit status raised by running mythic-cli.
C1_HomeNeverDeleted ==
    HomeTeardown =>
        /\ deleted = {}
        /\ fs = fs0
        /\ pc = "exited" =>
              \/ why = "cleanup" /\ refused /\ exitCode = 0
              \/ why \in {"interrupt", "exception"} /\ exitCode = 1

\* C1 (as claimed): such a run, when no keyboard interrupt ends it, deletes
\* nothing, reports the refusal and exits with code 0 whatever the stop and
\* uninstall steps do.
C1_HomeTeardownExitsZero ==
    HomeTeardown =>
        /\ deleted = {}
        /\ fs = fs0
        /\ (pc = "exited" /\ why # "interrupt") => (refused /\ exitCode = 0)

\* a teardown of a non-empty home directory given by a path that needs
\* normalizing: stop and the uninstalls ran, one of them failed, the refusal
\* was reported and the process exited with 0
C1_Witness ==
    /\ HomeTeardown
    /\ args.directory # HomeDir
    /\ pc = "exited"
    /\ exitCode = 0
    /\ refused
    /\ fs # {}
    /\ pluginFailed
    /\ Len(cliLog) = 1 + Len(Items)

\* the run started on a clone whose origin remote is the upstream url
StartedOnUpstreamClone ==
    /\ ~args.cleanup
    /\ ".git" \in fs0
    /\ origin0 = MYTHIC_REPO_URL

\* C2: a run of cloneAndBuild that starts on a clone whose origin remote is
\* the upstream url and reaches the build step has pulled, has attempted no
\* clone, and has deleted neither .git nor any working file.
C2_RerunPullsWithoutLoss ==
    (StartedOnUpstreamClone /\ pc = "build" /\ setup_successful) =>
        /\ gitLog = << "pull" >>
        /\ deleted = {}
        /\ fs0 \subseteq fs

\* C3: every deletion made in a run (of .git, of colliding files, of the
\* directory's contents during teardown) follows a "y" answer given in that
\* run; the two prompted deletions follow the "y" to their own prompt.
C3_DeletionsConfirmed ==
    \A d \in deleted :
        /\ confirmed # {}
        /\ d[1] \in {"git_prompt", "conflict_prompt"} => d[1] \in confirmed

\* the line configureMythic is to write for option i: NAME="value"
ExpectedLine(i) ==
    Upper(EnvOptionNames[i]) \o << "=", "\"" >> \o args.overrides[i][1]
        \o << "\"" >>

\* a key is in the file if and only if its value is not None, once
KeyWrittenIffNonNull ==
    LET lines == SplitLines(envFile)
    IN  \A i \in 1..NumOptions :
            IF IsNone(args.overrides[i])
            THEN \A j \in DOMAIN lines :
                     ~IsPrefix(Upper(EnvOptionNames[i]) \o << "=" >>, lines[j])
            ELSE Cardinality({ j \in DOMAIN lines : lines[j] = ExpectedLine(i) }) = 1

\* configureMythic has run with an override map holding a non-null value
Configured ==
    /\ pc # "start"
    /\ args.env
    /\ \E i \in 1..NumOptions : ~IsNone(args.overrides[i])

\* C4: for every override map with at least one non-null value, the .env
\* file exists and holds exactly one NAME="value" line (name upper-cased) for
\* each option whose value is non-null and no line for any option whose
\* value is null.
C4_EnvFileLinesAnyValue ==
    Configured =>
        /\ ".env" \in fs
        /\ KeyWrittenIffNonNull

\* C5: whenever ./mythic-cli start is invoked in a run in which every
\* override value is null, no .env file written by the script is in the
\* target directory (.env files come from the script alone here).
C5_DefaultStartWithoutEnvFile ==
    (startEnv # "notstarted" /\ \A i \in 1..NumOptions : IsNone(args.overrides[i]))
        => startEnv = "absent"

\* the items a mythic-cli subcommand was attempted for, in order
Attempted(cmd) ==
    LET calls == SelectSeq(cliLog, LAMBDA c : c.cmd = cmd)
    IN  [k \in 1..Len(calls) |-> calls[k].item]

\* the plugin loops have been left by their normal end
InstallLoopDone ==
    /\ Attempted("install") # << >>
    /\ pc = "complete" \/ (pc = "exited" /\ why = "complete")
UninstallLoopDone ==
    /\ Attempted("stop") # << >>
    /\ pc \in {"cd_home", "cd_docker", "cd_exit"}
          \/ (pc = "exited" /\ why = "cleanup")

C6_Attempts ==
    /\ \A cmd \in {"install", "uninstall"} :
           /\ Len(Attempted(cmd)) <= Len(Items)
           /\ \A k \in 1..Len(Attempted(cmd)) : Attempted(cmd)[k] = Items[k]
    /\ InstallLoopDone => Attempted("install") = Items
    /\ UninstallLoopDone => Attempted("uninstall") = Items

\* C6: with mythic-cli present, the install loop and the uninstall loop
\* attempt the seven items in list order, each once: a loop that ends has
\* attempted all seven whichever of them exited non-zero, and a non-zero
\* exit of an item does not end the run.
C6_AllItemsAttempted ==
    /\ []C6_Attempts
    /\ [][(pluginFailed' /\ ~pluginFailed) => pc' # "exited"]_vars

\* an installation whose plugin loop ended after a failed item, all seven
\* attempted
C6_Witness ==
    /\ InstallLoopDone
    /\ pluginFailed
    /\ Attempted("install") = Items

\* configureRules has returned
RulesReturned ==
    pc \in {"install", "install_item", "complete"}
        \/ (pc = "exited" /\ why = "complete")

DropCall(log) ==
    /\ log # << >>
    /\ log[1].rule = "DROP"
    /\ log[1].port = 7443
AcceptCall(log) ==
    /\ Len(log) = 2
    /\ log[2].rule = "ACCEPT"
    /\ log[2].port = 7443
    /\ log[2].source = args.source_ip

\* C7 (as amended): with a trusted source, configureRules first attempts
\* one DROP insertion for TCP/7443 and then, only if that invocation exited
\* with status 0, one ACCEPT insertion for TCP/7443 from that source; a
\* DROP invocation that fails ends the function without an ACCEPT
\* insertion.  With no source it runs no firewall command.
C7_DropThenAcceptIfDropSucceeded ==
    /\ Falsy(args.source_ip) => fwLog = << >>
    /\ fwLog # << >> =>
          /\ DropCall(fwLog)
          /\ IF fwLog[1].status = "ok" THEN AcceptCall(fwLog) ELSE Len(fwLog) = 1
    /\ (RulesReturned /\ ~Falsy(args.source_ip)) => fwLog # << >>

\* C7 (as claimed): with a trusted source, once configureRules has returned
\* exactly one DROP and then exactly one ACCEPT insertion were issued,
\* whatever their exit statuses.
C7_DropThenAcceptAlways ==
    /\ Falsy(args.source_ip) => fwLog = << >>
    /\ (RulesReturned /\ ~Falsy(args.source_ip)) =>
          (DropCall(fwLog) /\ AcceptCall(fwLog))

\* both rules inserted for 10.0.0.5/32, in order
C7_Witness ==
    /\ pc = "install"
    /\ args.source_ip = "10.0.0.5/32"
    /\ DropCall(fwLog)
    /\ AcceptCall(fwLog)
    /\ fwLog[2].status = "ok"

ExitRule ==
    /\ exitCode \in {0, 1}
    /\ exitCode = 0 <=> why \in {"complete", "cleanup", "declined"}
    /\ why \in {"interrupt", "exception", "build", "start"} => exitCode = 1
    /\ exc.kind = "SystemExit" => exitCode = exc.code

C9_DeclineLeavesDirectory ==
    why = "declined" =>
        /\ fs = fs0
        /\ gitOrigin = origin0
        /\ deleted = {}

\* C10: a teardown that has returned ran the compose-file orphan cleanup if
\* and only if docker-compose.yml was in the target directory when the
\* teardown began, and ran the docker prune unless --no-docker-cleanup.
C10_TeardownDockerCleanup ==
    (pc = "exited" /\ why = "cleanup") =>
        /\ composeAtTeardown <=>
              "compose down --remove-orphans" \in Range(dockerLog)
        /\ ~args.no_docker_cleanup => "system prune -af" \in Range(dockerLog)


\* the target directory holds a working copy of the upstream repository:
\* a .git directory whose origin is the upstream url and the upstream tree
WorkingCopy ==
    /\ ".git" \in fs
    /\ gitOrigin = MYTHIC_REPO_URL
    /\ UpstreamTree \subseteq fs

\* C11: cloneAndBuild invokes the build (it is at `if setup_successful:` with
\* setup successful) only when the target directory holds a working copy of
\* the upstream repository; a git failure during repository setup, the
\* fetch, checkout and pull of force_git_reinit included, leaves setup
\* unsuccessful, so that the run ends with exit code 1 without a build.
C11_BuildOnlyOnWorkingCopy ==
    (pc = "build" /\ setup_successful) => WorkingCopy

====
